---- MODULE Spec2Model ----
(***************************************************************************)
(* Model of the dionysus trading core of filipecn/midas:                   *)
(*   - Chrysus (strategy.rs): the per-instrument ledger with decide,       *)
(*     compute_orders and realize;                                        *)
(*   - Oracle::see and Strategy::required_history_size (strategy.rs);      *)
(*   - Book::quote (finance.rs);                                           *)
(*   - backtest and BacktestData::get_last (backtest.rs).                  *)
(* f64 amounts are modelled as exact rationals [n, d] in lowest terms.     *)
(* The numerical indicators behind Counselor::run are not modelled: the    *)
(* result of one counselor run is an input drawn from the results that     *)
(* counselor variant can return.                                           *)
(***************************************************************************)
EXTENDS Integers, Sequences, FiniteSets, TLC

\* ------------------------------------------------------------------ bounds
MaxOrders == 4       \* decide is not called once this many orders exist
MaxRealize == 2      \* realize is called at most this many times
MaxCounselors == 3   \* Oracle::see is applied to at most this many results
MaxPeriod == 2       \* the lookback of a counselor run on its own
MaxQuotes == 4       \* sample_quotes is handed at most this many quotes
MaxMinutes == 2      \* the resolutions handed to sample_quotes are Min(1..MaxMinutes)
MaxLevels == 2       \* the lines on each side of a book handed to Book::quote
MaxStored == 3       \* the cache holds at most this many samples after a write
MaxSeries == 3       \* the length of the series handed to compute_crossover_s
MaxHistory == 3      \* a backtest history has at most this many samples

\* ------------------------------------------------------- f64 as rationals
RECURSIVE GCD(_, _)
GCD(a, b) == IF b = 0 THEN a ELSE GCD(b, a % b)

Abs(x) == IF x < 0 THEN -x ELSE x

Rat(n, d) ==
    LET s == IF d < 0 THEN -1 ELSE 1
        g == GCD(Abs(n), Abs(d))
    IN  [n |-> (s * n) \div g, d |-> (s * d) \div g]

R(k) == [n |-> k, d |-> 1]
Zero == R(0)

RAdd(x, y) == Rat(x.n * y.d + y.n * x.d, x.d * y.d)
RSub(x, y) == Rat(x.n * y.d - y.n * x.d, x.d * y.d)
RMul(x, y) == Rat(x.n * y.n, x.d * y.d)
RDiv(x, y) == Rat(x.n * y.d, x.d * y.n)
RGt(x, y) == x.n * y.d > y.n * x.d

\* ------------------------------------------------------------ data model
None == <<>>
Some(v) == <<v>>

\* the prices of the model: stop prices advised by counselors, book prices
Prices == {R(1), R(2)}

\* Signal, Advice: only the fields compute_orders reads
Advice(signal, stop_price) == [signal |-> signal, stop_price |-> stop_price]
DefaultAdvice == Advice("None", Zero)
DefaultDecision == [advice |-> DefaultAdvice, pct |-> Zero]

\* Counselor variants with the period that is their required lookback
Counselor(kind, n) == [kind |-> kind, n |-> n]
Trace == Counselor("Trace", 0)
MeanReversion(n) == Counselor("MeanReversion", n)
MACDCrossover(n) == Counselor("MACDCrossover", n)
MACDZeroCross(n) == Counselor("MACDZeroCross", n)
EMACross(n) == Counselor("EMACross", n)
Counselors == {Trace, MeanReversion(1), MACDCrossover(2)}

required_samples(c) == IF c.kind = "Trace" THEN 0 ELSE c.n

\* What Counselor::run can return: Err, or Ok(advice); a call that panics
\* returns nothing.
Err == [ok |-> FALSE]
Ok(a) == [ok |-> TRUE, advice |-> a]
Panic == [panic |-> TRUE]

\* Counselor::run on a history.  Trace reads only the quote.  The others
\* compute their indicator over whatever samples they are given and unwrap
\* the last element: a panic on an empty history, Ok(advice) otherwise,
\* with the signal the indicator values give (an input here).  A crossover
\* over series of one element is Over or Bellow, which signals nothing.
run(c, history) ==
    IF c.kind = "Trace" THEN {Ok(DefaultAdvice)}
    ELSE IF history = <<>> THEN {Panic}
    ELSE IF c.kind # "MeanReversion" /\ Len(history) = 1 THEN {Ok(DefaultAdvice)}
    ELSE {Ok(DefaultAdvice)} \cup
         {Ok(Advice(s, p)) : s \in {"Buy", "Sell"}, p \in Prices}

\* what run returns on some history when it returns
RunResults(c) ==
    IF c.kind = "Trace"
    THEN {Ok(DefaultAdvice)}
    ELSE {Ok(DefaultAdvice)} \cup
         {Ok(Advice(s, p)) : s \in {"Buy", "Sell"}, p \in Prices}

Strategy(oracle, counselors, count) ==
    [oracle |-> oracle, counselors |-> counselors, duration_count |-> count]

RECURSIVE required_history_size_from(_, _)
required_history_size_from(cs, ans) ==
    IF cs = <<>> THEN ans
    ELSE LET r == required_samples(Head(cs))
         IN  required_history_size_from(Tail(cs), IF r > ans THEN r ELSE ans)

required_history_size(strategy) ==
    required_history_size_from(strategy.counselors, 0)

\* Delphi with the last counselor that signals winning
RECURSIVE Delphi_last(_)
Delphi_last(results) ==
    IF results = <<>> THEN DefaultDecision
    ELSE LET r == results[Len(results)] IN
         IF r.ok /\ r.advice.signal = "Buy"
         THEN [advice |-> r.advice, pct |-> Rat(6, 10)]
         ELSE IF r.ok /\ r.advice.signal = "Sell"
         THEN [advice |-> r.advice, pct |-> R(1)]
         ELSE Delphi_last(SubSeq(results, 1, Len(results) - 1))

\* Oracle::see over the results of the counselors, in declared order
RECURSIVE Delphi(_)
Delphi(results) ==
    IF results = <<>> THEN DefaultDecision
    ELSE LET r == Head(results) IN
         IF r.ok /\ r.advice.signal = "Buy"
         THEN [advice |-> r.advice, pct |-> Rat(6, 10)]
         ELSE IF r.ok /\ r.advice.signal = "Sell"
         THEN [advice |-> r.advice, pct |-> R(1)]
         ELSE Delphi(Tail(results))

\* see with every oracle behaving as Delphi
see_always_delphi(oracle, results) == Delphi(results)

see(oracle, results) ==
    IF oracle = "Delphi" THEN Delphi(results) ELSE DefaultDecision

\* Book::quote
Book(bids, asks) == [bids |-> bids, asks |-> asks]
DefaultBook == Book(<<>>, <<>>)

RECURSIVE MaxBy(_), MinBy(_)
MaxBy(s) ==
    IF Len(s) = 1 THEN s[1]
    ELSE LET m == MaxBy(Tail(s)) IN IF RGt(s[1], m) THEN s[1] ELSE m
MinBy(s) ==
    IF Len(s) = 1 THEN s[1]
    ELSE LET m == MinBy(Tail(s)) IN IF RGt(m, s[1]) THEN s[1] ELSE m

\* quote that looks at the bids only
quote_bids_only(book) ==
    IF book.bids = <<>> THEN None
    ELSE Some([bid |-> Some(MaxBy(book.bids)), ask |-> Some(MinBy(book.bids))])

quote(book) ==
    IF book.bids = <<>> \/ book.asks = <<>> THEN None
    ELSE Some([bid |-> Some(MaxBy(book.bids)), ask |-> Some(MinBy(book.bids))])

\* ------------------------------------------------------------- Chrysus
Tokens == {"BTC", "ETH"}

new ==
    [ token |-> "BTC",
      strategy |-> Strategy("Delphi", <<>>, 0),
      capital |-> Zero,
      locked_capital |-> Zero,
      positions |-> <<>>,
      balance |-> Zero,
      book |-> DefaultBook,
      orders |-> <<>>,
      next_position_index |-> 0,
      next_order_index |-> 0 ]

\* Chrysus::new(token)
new_token(token) == [new EXCEPT !.token = token]

\* what impl Serialize for Chrysus writes: a map of the serialized fields
serialize(c) == [token |-> c.token, strategy |-> c.strategy]

\* visit_map that leaves the default strategy in place
deserialize_default_strategy(map) ==
    IF {"token", "strategy"} \subseteq DOMAIN map
    THEN new_token(map.token)
    ELSE Panic

\* impl Deserialize for Chrysus, visit_map: token.unwrap() and
\* strategy.unwrap() panic on a map without the key
deserialize(map) ==
    IF {"token", "strategy"} \subseteq DOMAIN map
    THEN [new_token(map.token) EXCEPT !.strategy = map.strategy]
    ELSE Panic

\* HashMap::insert
Insert(m, k, v) == [x \in DOMAIN m \cup {k} |-> IF x = k THEN v ELSE m[x]]
\* HashMap::remove
Remove(m, k) == [x \in DOMAIN m \ {k} |-> m[x]]

\* the orders in which a HashMap iteration can visit the keys
Orderings(S) ==
    {f \in [1..Cardinality(S) -> S] : \A i, j \in 1..Cardinality(S) : f[i] = f[j] => i = j}

Position(price, quantity, date) ==
    [price |-> price, quantity |-> quantity, date |-> date, attached_order |-> None]


Order(index, position_index, side, quantity, price, date) ==
    [ index |-> index, position_index |-> position_index, side |-> side,
      quantity |-> quantity, price |-> price, date |-> date ]

\* compute_orders_buy without the move into locked_capital
compute_orders_buy_unlocked(c, decision, t) ==
    LET available_capital == RMul(decision.pct, c.capital)
        shares == RDiv(available_capital, decision.advice.stop_price)
        order == Order(c.next_order_index, None, "Buy", shares,
                       decision.advice.stop_price, t)
    IN  IF RGt(shares, Zero)
        THEN [ c |-> [c EXCEPT !.capital = RSub(@, available_capital),
                               !.orders = Insert(@, c.next_order_index, order),
                               !.next_order_index = @ + 1],
               orders |-> <<order>> ]
        ELSE [c |-> c, orders |-> <<>>]

\* compute_orders_buy that emits an order unless shares is negative
compute_orders_buy_nonneg(c, decision, t) ==
    LET available_capital == RMul(decision.pct, c.capital)
        shares == RDiv(available_capital, decision.advice.stop_price)
        order == Order(c.next_order_index, None, "Buy", shares,
                       decision.advice.stop_price, t)
    IN  IF ~RGt(Zero, shares)
        THEN [ c |-> [c EXCEPT !.locked_capital = RAdd(@, available_capital),
                               !.capital = RSub(@, available_capital),
                               !.orders = Insert(@, c.next_order_index, order),
                               !.next_order_index = @ + 1],
               orders |-> <<order>> ]
        ELSE [c |-> c, orders |-> <<>>]

\* compute_orders, Signal::Buy arm
compute_orders_buy(c, decision, t) ==
    LET available_capital == RMul(decision.pct, c.capital)
        shares == RDiv(available_capital, decision.advice.stop_price)
        order == Order(c.next_order_index, None, "Buy", shares,
                       decision.advice.stop_price, t)
    IN  IF RGt(shares, Zero)
        THEN [ c |-> [c EXCEPT !.locked_capital = RAdd(@, available_capital),
                               !.capital = RSub(@, available_capital),
                               !.orders = Insert(@, c.next_order_index, order),
                               !.next_order_index = @ + 1],
               orders |-> <<order>> ]
        ELSE [c |-> c, orders |-> <<>>]

\* compute_orders_sell without the increment of next_order_index
RECURSIVE compute_orders_sell_same_index(_, _, _, _, _)
compute_orders_sell_same_index(c, out, keys, decision, t) ==
    IF keys = <<>> THEN [c |-> c, orders |-> out]
    ELSE
      LET position_index == Head(keys)
          position == c.positions[position_index]
          order == Order(c.next_order_index, Some(position_index), "Sell",
                         position.quantity, decision.advice.stop_price, t)
      IN  IF position.attached_order = None
             /\ RGt(decision.advice.stop_price, position.price)
          THEN compute_orders_sell_same_index(
                 [c EXCEPT !.positions[position_index].attached_order =
                               Some(c.next_order_index),
                           !.orders = Insert(@, c.next_order_index, order)],
                 Append(out, order), Tail(keys), decision, t)
          ELSE compute_orders_sell_same_index(c, out, Tail(keys), decision, t)

\* compute_orders_sell that also closes a Position at its entry price
RECURSIVE compute_orders_sell_at_entry(_, _, _, _, _)
compute_orders_sell_at_entry(c, out, keys, decision, t) ==
    IF keys = <<>> THEN [c |-> c, orders |-> out]
    ELSE
      LET position_index == Head(keys)
          position == c.positions[position_index]
          order == Order(c.next_order_index, Some(position_index), "Sell",
                         position.quantity, decision.advice.stop_price, t)
      IN  IF position.attached_order = None
             /\ ~RGt(position.price, decision.advice.stop_price)
          THEN compute_orders_sell_at_entry(
                 [c EXCEPT !.positions[position_index].attached_order =
                               Some(c.next_order_index),
                           !.orders = Insert(@, c.next_order_index, order),
                           !.next_order_index = @ + 1],
                 Append(out, order), Tail(keys), decision, t)
          ELSE compute_orders_sell_at_entry(c, out, Tail(keys), decision, t)

\* compute_orders, Signal::Sell arm: the loop over self.positions, visiting
\* the keys in the order keys
RECURSIVE compute_orders_sell(_, _, _, _, _)
compute_orders_sell(c, out, keys, decision, t) ==
    IF keys = <<>> THEN [c |-> c, orders |-> out]
    ELSE
      LET position_index == Head(keys)
          position == c.positions[position_index]
          order == Order(c.next_order_index, Some(position_index), "Sell",
                         position.quantity, decision.advice.stop_price, t)
      IN  IF position.attached_order = None
             /\ RGt(decision.advice.stop_price, position.price)
          THEN compute_orders_sell(
                 [c EXCEPT !.positions[position_index].attached_order =
                               Some(c.next_order_index),
                           !.orders = Insert(@, c.next_order_index, order),
                           !.next_order_index = @ + 1],
                 Append(out, order), Tail(keys), decision, t)
          ELSE compute_orders_sell(c, out, Tail(keys), decision, t)

\* compute_orders; t is the reading of Date::now(), keys the iteration order
compute_orders(c, decision, t, keys) ==
    IF decision.advice.signal = "Buy" THEN compute_orders_buy(c, decision, t)
    ELSE IF decision.advice.signal = "Sell"
    THEN compute_orders_sell(c, <<>>, keys, decision, t)
    ELSE [c |-> c, orders |-> <<>>]

\* realize_buy releasing the quantity instead of quantity * price
realize_buy_no_price(c, order) ==
    [c EXCEPT !.positions = Insert(@, c.next_position_index,
                                   Position(order.price, order.quantity, order.date)),
              !.balance = RAdd(@, order.quantity),
              !.locked_capital = RSub(@, order.quantity)]

\* the Buy arm leaving the allocated capital locked
realize_buy_locked(c, order) ==
    [c EXCEPT !.positions = Insert(@, c.next_position_index,
                                   Position(order.price, order.quantity, order.date)),
              !.balance = RAdd(@, order.quantity)]

\* realize, Side::Buy arm
realize_buy(c, order) ==
    [c EXCEPT !.positions = Insert(@, c.next_position_index,
                                   Position(order.price, order.quantity, order.date)),
              !.balance = RAdd(@, order.quantity),
              !.locked_capital = RSub(@, RMul(order.quantity, order.price))]

\* realize that applies a Sell order only while its Position is open
realize_if_open(c, order) ==
    IF order.side = "Sell"
    THEN IF order.position_index # None
            /\ order.position_index[1] \in DOMAIN c.positions
         THEN [c EXCEPT !.positions = Remove(@, order.position_index[1]),
                        !.balance = RSub(@, order.quantity),
                        !.capital = RAdd(@, RMul(order.quantity, order.price))]
         ELSE c
    ELSE realize_buy(c, order)

realize(c, order) ==
    IF order.side = "Sell"
    THEN [c EXCEPT !.positions = IF order.position_index # None
                                 THEN Remove(@, order.position_index[1])
                                 ELSE @,
                   !.balance = RSub(@, order.quantity),
                   !.capital = RAdd(@, RMul(order.quantity, order.price))]
    ELSE realize_buy(c, order)

\* decide; histOk says whether get_last returned Ok, results are the
\* results of the strategy's counselors on the samples it returned
decide(c, book, histOk, results, t, keys) ==
    LET c1 == [c EXCEPT !.book = book] IN
    IF quote(book) # None /\ histOk
    THEN compute_orders(c1, see(c.strategy.oracle, results), t, keys)
    ELSE [c |-> c1, orders |-> <<>>]

\* the results the counselors of a strategy can return, in declared order
ResultsOf(strategy) ==
    {rs \in [1..Len(strategy.counselors) -> UNION {RunResults(k) : k \in Counselors}] :
        \A i \in 1..Len(strategy.counselors) : rs[i] \in RunResults(strategy.counselors[i])}

\* the results of the counselors of a strategy run on a history
ResultsOn(strategy, history) ==
    {rs \in [1..Len(strategy.counselors) -> UNION {RunResults(k) : k \in Counselors}] :
        \A i \in 1..Len(strategy.counselors) : rs[i] \in run(strategy.counselors[i], history)}

\* capital + locked_capital + sum over open positions of quantity * price
RECURSIVE PositionsValue(_)
PositionsValue(positions) ==
    IF DOMAIN positions = {} THEN Zero
    ELSE LET k == CHOOSE x \in DOMAIN positions : TRUE
         IN  RAdd(RMul(positions[k].quantity, positions[k].price),
                  PositionsValue(Remove(positions, k)))

Total(c) == RAdd(RAdd(c.capital, c.locked_capital), PositionsValue(c.positions))

\* ------------------------------------------------- inputs of the model
\* the strategies a live agent is given
LiveStrategies ==
    { Strategy("Delphi", <<Trace, MACDCrossover(2)>>, 2),
      Strategy("Dodona", <<MeanReversion(1)>>, 1) }

\* the strategies of the agents handed to backtest
BacktestStrategies ==
    { Strategy("Delphi", <<>>, 0),
      Strategy("Delphi", <<Trace>>, 0),
      Strategy("Delphi", <<MeanReversion(1)>>, 1),
      Strategy("Delphi", <<MeanReversion(1)>>, 0),
      Strategy("Delphi", <<Trace, MACDCrossover(2)>>, 2),
      Strategy("Delphi", <<Trace, MACDCrossover(2)>>, 1),
      Strategy("Dodona", <<MeanReversion(1)>>, 1) }

InitialCapital == 1000
Capitals == {Zero, R(InitialCapital)}

Books ==
    { Book(<<>>, <<R(1)>>), Book(<<R(1)>>, <<>>), Book(<<R(1)>>, <<R(2)>>) }

\* ------------------------------------------------------------- state
VARIABLES
    c,          \* the live Chrysus agent
    now,        \* the last reading of Date::now()
    emitted,    \* the orders decide returned so far, in emission order
    filled,     \* indices of emitted orders that realize was called with
    legit,      \* realize was called at most once per emitted order, and
                \* with emitted orders only
    created,    \* position indices written by Buy fills, in fill order
    nrealize,   \* number of realize calls
    op,         \* the last operation and its inputs and outputs
    start,      \* the agent as it was constructed
    bt,         \* the state of the backtest runs
    cache       \* Cache.data: token key -> resolution -> stored samples

vars == <<c, now, emitted, filled, legit, created, nrealize, op, start, bt, cache>>

\* no backtest is running
BtIdle ==
    [ pc |-> "idle", call |-> 1, chrysus |-> <<new, new>>, history |-> <<>>,
      i |-> 0, c |-> new, ndecide |-> 0, slice |-> <<>>, returned |-> <<>>,
      decided |-> new, result |-> <<>>, results |-> <<>>, table |-> <<>> ]

Init ==
    /\ \E s \in LiveStrategies, cap \in Capitals :
          c = [new EXCEPT !.strategy = s, !.capital = cap]
    /\ now = 0
    /\ emitted = <<>>
    /\ filled = {}
    /\ legit = TRUE
    /\ created = <<>>
    /\ nrealize = 0
    /\ op = [name |-> "new"]
    /\ start = c
    /\ bt = BtIdle
    /\ cache = <<>>

\* Chrysus::decide called by the owner of the agent.  The inputs are the
\* book, whether get_last returned Ok and the counselors' results; an input
\* is drawn only where decide reads it.  Date::now() reads the clock now,
\* which stands still while the live agent is driven.
DecideWith(book, histOk, results, t, keys) ==
    LET r == decide(c, book, histOk, results, t, keys) IN
    /\ c.next_order_index < MaxOrders
    /\ c' = r.c
    /\ emitted' = emitted \o r.orders
    /\ op' = [ name |-> "decide",
               decision |-> IF quote(book) # None /\ histOk
                            THEN see(c.strategy.oracle, results)
                            ELSE DefaultDecision,
               histOk |-> histOk,
               results |-> results,
               orders |-> r.orders ]
    /\ UNCHANGED <<now, filled, legit, created, nrealize, start, bt, cache>>

NoResults(strategy) == CHOOSE rs \in ResultsOf(strategy) : TRUE

\* decide returns early: the book has no quote, or get_last failed
DecideSkip ==
    \E book \in Books :
       \/ /\ quote(book) = None
          /\ DecideWith(book, TRUE, NoResults(c.strategy), now, <<>>)
       \/ /\ quote(book) # None
          /\ DecideWith(book, FALSE, NoResults(c.strategy), now, <<>>)

\* decide runs the strategy and computes the orders
Decide ==
    \E book \in Books, results \in ResultsOf(c.strategy),
       keys \in Orderings(DOMAIN c.positions) :
       /\ quote(book) # None
       /\ DecideWith(book, TRUE, results, now, keys)

\* the orders a caller can build to close an open position itself
ClosingOrders ==
    {Order(c.next_order_index, Some(k), "Sell", c.positions[k].quantity, p, now) :
        k \in DOMAIN c.positions, p \in Prices}

RealizeWith(order, external) ==
    /\ nrealize < MaxRealize
    /\ c' = realize(c, order)
    /\ nrealize' = nrealize + 1
    /\ filled' = IF external THEN filled ELSE filled \cup {order.index}
    /\ legit' = (legit /\ ~external /\ order.index \notin filled)
    /\ created' = IF order.side = "Buy"
                  THEN Append(created, c.next_position_index) ELSE created
    /\ op' = [name |-> "realize", order |-> order, external |-> external]
    /\ UNCHANGED <<now, emitted, start, bt, cache>>

\* Chrysus::realize called with an order that decide returned
Realize == \E k \in 1..Len(emitted) : RealizeWith(emitted[k], FALSE)

\* Chrysus::realize called with an order the caller built
RealizeExternal == \E order \in ClosingOrders : RealizeWith(order, TRUE)

Next == DecideSkip \/ Decide \/ Realize \/ RealizeExternal

Spec == Init /\ [][Next]_vars


\* ------------------------------------------------------------ backtest
Sample(k) == [resolution |-> "Min", timestamp |-> 10 + k, close |-> R(1 + (k % 2))]
HistoryOf(n) == [k \in 1..n |-> Sample(k)]
Histories == {HistoryOf(n) : n \in 0..MaxHistory}

\* ledgers an agent reaches through decide and realize before it is handed
\* to backtest: new, a pending Buy, an open Position, a Position with an
\* attached Sell order
BuyAt1 == [advice |-> Advice("Buy", R(1)), pct |-> Rat(6, 10)]
SellAt2 == [advice |-> Advice("Sell", R(2)), pct |-> R(1)]
LedgerNew(s) == [new EXCEPT !.strategy = s]
LedgerPending(s) ==
    compute_orders([LedgerNew(s) EXCEPT !.capital = R(InitialCapital)], BuyAt1, 0, <<>>)
LedgerOpen(s) == realize(LedgerPending(s).c, LedgerPending(s).orders[1])
LedgerClosing(s) == compute_orders(LedgerOpen(s), SellAt2, 0, <<0>>).c
Ledgers(s) == {LedgerNew(s), LedgerPending(s).c, LedgerOpen(s), LedgerClosing(s)}

\* a window that reaches one sample further, up to the sample being replayed
get_last_inclusive(samples, sample_index, count) ==
    LET first_index == IF sample_index >= count THEN sample_index - count ELSE 0
    IN  SubSeq(samples, first_index + 1, sample_index + 1)

\* BacktestData::get_last: samples[first_index..sample_index]
get_last(samples, sample_index, count) ==
    LET first_index == IF sample_index >= count THEN sample_index - count ELSE 0
    IN  SubSeq(samples, first_index + 1, sample_index)

\* the history-reading counselors unwrap the last element of what they
\* computed from the samples: on an empty slice the first of them that
\* Delphi runs panics
CounselorPanics(strategy, samples) ==
    /\ samples = <<>>
    /\ strategy.oracle = "Delphi"
    /\ \E k \in 1..Len(strategy.counselors) : strategy.counselors[k].kind # "Trace"

\* the loop over the orders decide returned, without the date stamp
RECURSIVE fill_orders_unstamped(_, _, _, _)
fill_orders_unstamped(a, out, orders, timestamp) ==
    IF orders = <<>> THEN [c |-> a, orders |-> out]
    ELSE fill_orders_unstamped(realize(a, Head(orders)), Append(out, Head(orders)),
                               Tail(orders), timestamp)

\* the loop over the orders decide returned, without the call of realize
RECURSIVE fill_orders_unrealized(_, _, _, _)
fill_orders_unrealized(a, out, orders, timestamp) ==
    IF orders = <<>> THEN [c |-> a, orders |-> out]
    ELSE LET order == [Head(orders) EXCEPT !.date = timestamp]
         IN  fill_orders_unrealized(a, Append(out, order), Tail(orders), timestamp)

\* backtest: the loop over the orders decide returned
RECURSIVE fill_orders(_, _, _, _)
fill_orders(a, out, orders, timestamp) ==
    IF orders = <<>> THEN [c |-> a, orders |-> out]
    ELSE LET order == [Head(orders) EXCEPT !.date = timestamp]
         IN  fill_orders(realize(a, order), Append(out, order), Tail(orders), timestamp)

\* a replay that starts one sample early
backtest_offset_early(chrysus) ==
    IF required_history_size(chrysus.strategy) > 0
    THEN required_history_size(chrysus.strategy) - 1 ELSE 0

\* backtest: the start offset of the replay loop
backtest_offset(chrysus) == required_history_size(chrysus.strategy)

\* bt.pc = "call": backtest(&chrysus[call], &history) is about to be called
InitBT ==
    /\ c = new
    /\ now = 0
    /\ emitted = <<>>
    /\ filled = {}
    /\ legit = TRUE
    /\ created = <<>>
    /\ nrealize = 0
    /\ op = [name |-> "new"]
    /\ start = c
    /\ cache = <<>>
    /\ \E s \in BacktestStrategies, history \in Histories :
       \E a1 \in Ledgers(s) : \E a2 \in {a1, LedgerNew(s)} :
          bt = [ pc |-> "call", call |-> 1, chrysus |-> <<a1, a2>>,
                 history |-> history, i |-> 0, c |-> new, ndecide |-> 0,
                 slice |-> <<>>, returned |-> <<>>, decided |-> new,
                 result |-> <<>>, results |-> <<>>, table |-> <<>> ]

btfixed == <<c, emitted, filled, legit, created, nrealize, op, start, cache>>

\* history[0] on an empty history: index out of bounds
BacktestPanic ==
    /\ bt.pc = "call"
    /\ bt.history = <<>>
    /\ bt' = [bt EXCEPT !.pc = "panicked"]
    /\ UNCHANGED <<btfixed, now>>

\* backtest up to the replay loop
BacktestEnter ==
    /\ bt.pc = "call"
    /\ bt.history # <<>>
    /\ bt' = [bt EXCEPT
                !.pc = "loop",
                !.c = [bt.chrysus[bt.call] EXCEPT !.capital = R(InitialCapital)],
                !.result = [ initial_capital |-> R(InitialCapital),
                             orders |-> <<>>,
                             period |-> [resolution |-> bt.history[1].resolution,
                                         count |-> Len(bt.history)],
                             currency_balance |-> Zero,
                             symbol_balance |-> Zero ],
                !.i = backtest_offset(bt.chrysus[bt.call]),
                !.ndecide = 0,
                !.slice = <<>>,
                !.returned = <<>>,
                !.decided = new]
    /\ UNCHANGED <<btfixed, now>>

\* the results of the counselors at sample i: a function of the quote and
\* the samples, so the same in every replay of the same history
TableAt(i) ==
    IF i \in DOMAIN bt.table THEN {bt.table[i]}
    ELSE IF bt.c.strategy.oracle = "Delphi"
    THEN ResultsOn(bt.c.strategy, get_last(bt.history, i, bt.c.strategy.duration_count))
    ELSE {NoResults(bt.c.strategy)}

\* one iteration of the replay loop
BacktestStep ==
    /\ bt.pc = "loop"
    /\ bt.i < Len(bt.history)
    /\ ~CounselorPanics(bt.c.strategy,
                        get_last(bt.history, bt.i, bt.c.strategy.duration_count))
    /\ \E results \in TableAt(bt.i), t \in {now, now + 1},
          keys \in Orderings(DOMAIN bt.c.positions) :
          LET sample == bt.history[bt.i + 1]
              book == Book(<<sample.close>>, <<sample.close>>)
              r == decide(bt.c, book, TRUE, results, t, keys)
              f == fill_orders(r.c, bt.result.orders, r.orders, sample.timestamp)
          IN  /\ bt' = [bt EXCEPT !.c = f.c,
                                  !.result.orders = f.orders,
                                  !.i = @ + 1,
                                  !.ndecide = @ + 1,
                                  !.slice = get_last(bt.history, bt.i,
                                                     bt.c.strategy.duration_count),
                                  !.returned = r.orders,
                                  !.decided = r.c,
                                  !.table = Insert(@, bt.i, results)]
              /\ now' = IF r.orders = <<>> THEN now ELSE t
    /\ UNCHANGED btfixed

\* decide reaches a counselor that panics
BacktestStepPanic ==
    /\ bt.pc = "loop"
    /\ bt.i < Len(bt.history)
    /\ CounselorPanics(bt.c.strategy,
                       get_last(bt.history, bt.i, bt.c.strategy.duration_count))
    /\ bt' = [bt EXCEPT !.pc = "panicked",
                         !.ndecide = @ + 1,
                         !.slice = get_last(bt.history, bt.i,
                                            bt.c.strategy.duration_count)]
    /\ UNCHANGED <<btfixed, now>>

\* the replay loop is over: backtest returns its result
BacktestReturn ==
    /\ bt.pc = "loop"
    /\ bt.i >= Len(bt.history)
    /\ LET result == [bt.result EXCEPT !.currency_balance = bt.c.capital,
                                       !.symbol_balance = bt.c.balance]
       IN  bt' = [bt EXCEPT !.pc = IF bt.call = 1 THEN "call" ELSE "done",
                            !.call = IF bt.call = 1 THEN 2 ELSE @,
                            !.results = Append(@, [result |-> result,
                                                   ndecide |-> bt.ndecide])]
    /\ UNCHANGED <<btfixed, now>>

NextBT ==
    BacktestPanic \/ BacktestEnter \/ BacktestStep \/ BacktestStepPanic \/ BacktestReturn

SpecBT == InitBT /\ [][NextBT]_vars

\* ------------------------------------------------------------- claims
IsBuyFill(o) == o.name = "realize" /\ o.order.side = "Buy"

\* C1: every Buy fill applied by realize stores its Position under a
\* position index that no earlier Position of the agent used (with realize
\* called once per emitted order).
C1_PositionIndexNeverReused ==
    legit => \A i, j \in 1..Len(created) : created[i] = created[j] => i = j

\* C2: realize of a Buy order (quantity q, price p) decreases locked_capital
\* by q*p, increases balance by q and adds one open Position (q, p, no
\* attached order) while keeping every previously open Position, so that
\* capital + locked_capital + value of the open Positions is unchanged.
C2_BuyFillKeepsPositions ==
    [][ (IsBuyFill(op') /\ legit') =>
          LET o == op'.order IN
          /\ c'.locked_capital = RSub(c.locked_capital, RMul(o.quantity, o.price))
          /\ c'.balance = RAdd(c.balance, o.quantity)
          /\ \A k \in DOMAIN c.positions :
                k \in DOMAIN c'.positions /\ c'.positions[k] = c.positions[k]
          /\ \E k \in DOMAIN c'.positions \ DOMAIN c.positions :
                /\ c'.positions[k].quantity = o.quantity
                /\ c'.positions[k].price = o.price
                /\ c'.positions[k].attached_order = None
          /\ Total(c') = Total(c) ]_vars

\* C3: at most one emitted and not yet realized Sell order refers to any
\* given position index (with realize called once per emitted order).
C3_SingleAttachedOrder ==
    legit =>
      \A i, j \in 1..Len(emitted) :
         ( /\ emitted[i].side = "Sell" /\ emitted[j].side = "Sell"
           /\ emitted[i].position_index = emitted[j].position_index
           /\ emitted[i].index \notin filled /\ emitted[j].index \notin filled )
         => i = j

\* C4: the indices of the emitted Orders, in emission order, are strictly
\* increasing, and each emitted Order is recorded in the agent's orders map
\* under its index.
C4_OrderIndexMonotonic ==
    /\ \A i, j \in 1..Len(emitted) : i < j => emitted[i].index < emitted[j].index
    /\ \A k \in 1..Len(emitted) :
          /\ emitted[k].index \in DOMAIN c.orders
          /\ c.orders[emitted[k].index] = emitted[k]

C4_Witness ==
    /\ Len(emitted) >= 3
    /\ nrealize >= 1
    /\ \E i, j \in 1..Len(emitted) : emitted[i].side = "Buy" /\ emitted[j].side = "Sell"

\* the run is exactly: one Buy decision, realize of its order, then realize
\* of a Sell order for the created position at the same quantity and price
RoundTripDone ==
    /\ Len(emitted) = 1
    /\ emitted[1].side = "Buy"
    /\ nrealize = 2
    /\ filled = {emitted[1].index}
    /\ op.name = "realize"
    /\ op.external
    /\ op.order.position_index = Some(created[1])
    /\ op.order.quantity = emitted[1].quantity
    /\ op.order.price = emitted[1].price

\* C5: from free capital C, locked capital 0 and no positions, a Buy
\* decision with fraction p and stop price s yields one order of quantity
\* p*C/s; after realize of it and realize of a Sell of the created position
\* at the same quantity and price, capital is C, locked_capital 0, balance
\* 0 and there is no Position.
C5_RoundTrip ==
    RoundTripDone =>
      /\ emitted[1].quantity = RDiv(RMul(Rat(6, 10), start.capital), emitted[1].price)
      /\ c.capital = start.capital
      /\ c.locked_capital = Zero
      /\ c.balance = Zero
      /\ DOMAIN c.positions = {}

C5_Witness == RoundTripDone /\ emitted[1].price = R(2) /\ start.capital = R(InitialCapital)

\* C6: decide never changes capital + locked_capital + value of the open
\* Positions: a Buy decision moves the allocated amount from capital to
\* locked_capital, Sell and None decisions change neither, and no Position
\* is added, removed or re-priced.
C6_DecideKeepsTotal ==
    [][ op'.name = "decide" =>
          LET d == op'.decision
              allocated == RMul(d.pct, c.capital)
          IN
          /\ Total(c') = Total(c)
          /\ d.advice.signal = "Buy" =>
                /\ c'.capital = RSub(c.capital, allocated)
                /\ c'.locked_capital = RAdd(c.locked_capital, allocated)
          /\ d.advice.signal # "Buy" =>
                /\ c'.capital = c.capital
                /\ c'.locked_capital = c.locked_capital
          /\ DOMAIN c'.positions = DOMAIN c.positions
          /\ \A k \in DOMAIN c.positions :
                /\ c'.positions[k].price = c.positions[k].price
                /\ c'.positions[k].quantity = c.positions[k].quantity ]_vars

C6_Witness ==
    /\ op.name = "decide"
    /\ op.decision.advice.signal = "Buy"
    /\ op.orders # <<>>
    /\ DOMAIN c.positions # {}


\* what a backtest result shows its caller, apart from the period
SameOutcome(r1, r2) ==
    /\ r1.orders = r2.orders
    /\ r1.currency_balance = r2.currency_balance
    /\ r1.symbol_balance = r2.symbol_balance

\* C7: for two agents with the same token and strategy but different
\* ledgers, backtest over the same history returns the same order list,
\* the same currency_balance and symbol_balance, and initial_capital 1000.
C7_BacktestIgnoresLedger ==
    bt.pc = "done" =>
      /\ SameOutcome(bt.results[1].result, bt.results[2].result)
      /\ bt.results[1].result.initial_capital = R(InitialCapital)
      /\ bt.results[2].result.initial_capital = R(InitialCapital)

\* C8: two runs of backtest on the same agent and the same history produce
\* identical order lists (index, side, quantity, price, position reference,
\* date) and identical currency_balance and symbol_balance.
C8_BacktestDeterministic ==
    (bt.pc = "done" /\ bt.chrysus[1] = bt.chrysus[2]) =>
      SameOutcome(bt.results[1].result, bt.results[2].result)

C8_Witness ==
    /\ bt.pc = "done"
    /\ bt.chrysus[1] = bt.chrysus[2]
    /\ now >= 1
    /\ \E i, j \in 1..Len(bt.results[2].result.orders) :
          /\ bt.results[2].result.orders[i].side = "Buy"
          /\ bt.results[2].result.orders[j].side = "Sell"

\* C9: when the length of a non-empty history equals
\* strategy.required_history_size(), backtest calls decide zero times and
\* returns zero orders with currency_balance equal to the starting capital.
C9_LookbackGating ==
    (bt.history # <<>> /\
     Len(bt.history) = required_history_size(bt.chrysus[1].strategy)) =>
      /\ bt.pc # "panicked"
      /\ \A k \in 1..Len(bt.results) :
            /\ bt.results[k].ndecide = 0
            /\ bt.results[k].result.orders = <<>>
            /\ bt.results[k].result.currency_balance = R(InitialCapital)

C9_Witness ==
    /\ bt.pc = "done"
    /\ Len(bt.history) = required_history_size(bt.chrysus[1].strategy)
    /\ DOMAIN bt.chrysus[1].positions # {}

\* C10: for every history shorter than the strategy's required lookback,
\* the empty history included, backtest returns normally with an empty
\* order list.
C10_ShortHistoryReturns ==
    Len(bt.history) < required_history_size(bt.chrysus[1].strategy) =>
      /\ bt.pc # "panicked"
      /\ \A k \in 1..Len(bt.results) : bt.results[k].result.orders = <<>>

\* C11: at every replay step of backtest, for every strategy (any counselor
\* list, any duration.count, 0 included), the history slice that get_last
\* hands to the counselors is non-empty and at least as long as the
\* strategy's required lookback.
C11_SliceCoversLookback ==
    bt.ndecide > 0 =>
      /\ bt.slice # <<>>
      /\ Len(bt.slice) >= required_history_size(bt.c.strategy)

\* realize applied once to each order of a list, in list order
RECURSIVE RealizeEach(_, _)
RealizeEach(a, orders) ==
    IF orders = <<>> THEN a ELSE RealizeEach(realize(a, Head(orders)), Tail(orders))

NonDecreasingDates(orders) ==
    \A j, k \in 1..Len(orders) : j <= k => orders[j].date <= orders[k].date

\* C12: backtest processes the samples in increasing index order from the
\* start offset to the end of the history; every order decide returns at
\* sample i is stamped with the timestamp of sample i, passed to realize
\* exactly once before sample i+1 is processed, and appended to the
\* result's order list in emission order; order dates are non-decreasing,
\* and no returned order is left unrealized when backtest returns.
C12_ReplayInOrder ==
    [][ /\ (bt'.pc = "loop" /\ bt'.ndecide = bt.ndecide + 1) =>
             LET timestamp == bt.history[bt.i + 1].timestamp
                 stamped == [k \in 1..Len(bt'.returned) |->
                               [bt'.returned[k] EXCEPT !.date = timestamp]]
             IN  /\ bt.i = backtest_offset(bt.c) + bt.ndecide
                 /\ bt'.i = bt.i + 1
                 /\ bt'.result.orders = bt.result.orders \o stamped
                 /\ bt'.c = RealizeEach(bt'.decided, stamped)
        /\ Len(bt'.results) = Len(bt.results) + 1 =>
             /\ bt.i >= Len(bt.history)
             /\ bt.i = backtest_offset(bt.c) + bt.ndecide
             /\ bt'.results[Len(bt'.results)].result.orders = bt.result.orders
        /\ bt'.pc = "loop" => NonDecreasingDates(bt'.result.orders) ]_vars

C12_Witness ==
    /\ bt.pc = "done"
    /\ bt.results[2].ndecide >= 2
    /\ \E j, k \in 1..Len(bt.results[2].result.orders) :
          bt.results[2].result.orders[j].date < bt.results[2].result.orders[k].date

\* C13: on a Buy decision with fraction pct and stop price s, decide
\* computes allocated = pct * capital and quantity = allocated / s; if
\* quantity > 0 it emits exactly one Buy order with that quantity and price
\* s, decreases capital by allocated and increases locked_capital by
\* allocated; otherwise (capital = 0) it emits no order and changes nothing
\* in the ledger.
C13_BuyDecision ==
    [][ (op'.name = "decide" /\ op'.decision.advice.signal = "Buy") =>
          LET s == op'.decision.advice.stop_price
              allocated == RMul(op'.decision.pct, c.capital)
              quantity == RDiv(allocated, s)
          IN  IF RGt(quantity, Zero)
              THEN /\ Len(op'.orders) = 1
                   /\ op'.orders[1].side = "Buy"
                   /\ op'.orders[1].quantity = quantity
                   /\ op'.orders[1].price = s
                   /\ c'.capital = RSub(c.capital, allocated)
                   /\ c'.locked_capital = RAdd(c.locked_capital, allocated)
              ELSE /\ op'.orders = <<>>
                   /\ c' = [c EXCEPT !.book = c'.book] ]_vars

C13_Witness ==
    /\ op.name = "decide"
    /\ op.decision.advice.signal = "Buy"
    /\ Len(op.orders) = 1
    /\ op.orders[1].index = 1
    /\ op.orders[1].quantity = RDiv(RMul(Rat(6, 10), R(400)), op.orders[1].price)
    /\ c.capital = R(160)

\* C14: on a Sell decision with stop price s, decide emits exactly one Sell
\* order for each open Position that has no attached order and whose entry
\* price is strictly below s, and none for any other Position; each such
\* order has the Position's quantity, price s and a back-reference to the
\* Position, and the Position becomes attached to it.  So no Sell order
\* decide emits has a price at or below the entry price of its Position.
C14_SellDecision ==
    [][ (op'.name = "decide" /\ op'.decision.advice.signal = "Sell") =>
          LET s == op'.decision.advice.stop_price
              eligible == {k \in DOMAIN c.positions :
                              /\ c.positions[k].attached_order = None
                              /\ RGt(s, c.positions[k].price)}
              closing(k) == {j \in 1..Len(op'.orders) :
                                op'.orders[j].position_index = Some(k)}
          IN  /\ Len(op'.orders) = Cardinality(eligible)
              /\ \A j \in 1..Len(op'.orders) :
                    /\ op'.orders[j].side = "Sell"
                    /\ op'.orders[j].price = s
                    /\ op'.orders[j].position_index # None
                    /\ op'.orders[j].position_index[1] \in eligible
                    /\ RGt(op'.orders[j].price,
                           c.positions[op'.orders[j].position_index[1]].price)
              /\ \A k \in eligible :
                    /\ Cardinality(closing(k)) = 1
                    /\ \A j \in closing(k) :
                          /\ op'.orders[j].quantity = c.positions[k].quantity
                          /\ c'.positions[k].attached_order = Some(op'.orders[j].index)
              /\ DOMAIN c'.positions = DOMAIN c.positions
              /\ \A k \in DOMAIN c.positions \ eligible :
                    c'.positions[k] = c.positions[k] ]_vars

C14_Witness ==
    /\ op.name = "decide"
    /\ op.decision.advice.signal = "Sell"
    /\ Len(op.orders) = 1
    /\ op.orders[1].position_index = Some(0)
    /\ c.positions[0].attached_order = Some(op.orders[1].index)
    /\ RGt(op.orders[1].price, c.positions[0].price)

\* C16: if the book passed to decide has no bids or no asks, or get_last
\* returns an error, decide returns an empty order list and leaves capital,
\* locked_capital, positions, orders, balance and both index counters
\* unchanged; only the stored book is replaced.
C16_NoQuoteNoOrders ==
    [][ ( /\ op'.name = "decide"
          /\ \/ c'.book.bids = <<>>
             \/ c'.book.asks = <<>>
             \/ ~op'.histOk ) =>
          /\ op'.orders = <<>>
          /\ emitted' = emitted
          /\ c' = [c EXCEPT !.book = c'.book] ]_vars

C16_Witness ==
    /\ op.name = "decide"
    /\ c.book.bids # <<>>
    /\ c.book.asks = <<>>
    /\ c.capital # Zero
    /\ DOMAIN c.positions # {}
    /\ op.orders = <<>>

\* C19: Oracle::Dodona returns the default Decision whatever the counselors
\* would advise, so an agent whose strategy uses Dodona never emits an
\* order and decide never changes its ledger.
C19_DodonaInert ==
    start.strategy.oracle = "Dodona" =>
      /\ emitted = <<>>
      /\ c = [start EXCEPT !.book = c.book]
      /\ op.name = "decide" =>
            /\ op.decision = DefaultDecision
            /\ op.orders = <<>>

C19_Witness ==
    /\ c.strategy.oracle = "Dodona"
    /\ op.name = "decide"
    /\ op.histOk
    /\ quote(c.book) # None
    /\ c.capital = R(InitialCapital)
    /\ \E k \in 1..Len(op.results) : op.results[k].advice.signal = "Buy"

\* ------------------------------------------------------- crossovers
Cmp(a, b) == IF a < b THEN "Less" ELSE IF a = b THEN "Equal" ELSE "Greater"

\* Crossover::from with Greater followed by Equal read as Equal
from_flat(curr, prev) ==
    IF prev = "Greater"
    THEN IF curr = "Greater" THEN "Over"
         ELSE IF curr = "Equal" THEN "Equal" ELSE "CrossingDownwards"
    ELSE IF prev = "Equal"
    THEN IF curr = "Greater" THEN "CrossingUpwards"
         ELSE IF curr = "Equal" THEN "Equal" ELSE "CrossingDownwards"
    ELSE IF curr = "Less" THEN "Bellow" ELSE "CrossingUpwards"

\* Crossover::from
from(curr, prev) ==
    IF prev = "Greater"
    THEN IF curr = "Greater" THEN "Over" ELSE "CrossingDownwards"
    ELSE IF prev = "Equal"
    THEN IF curr = "Greater" THEN "CrossingUpwards"
         ELSE IF curr = "Equal" THEN "Equal" ELSE "CrossingDownwards"
    ELSE IF curr = "Less" THEN "Bellow" ELSE "CrossingUpwards"

\* cross_from_ord that classifies index 0 as Over whatever the ordering
cross_from_ord_first_over(ord) ==
    [i \in 1..Len(ord) |->
        IF i > 1 THEN from(ord[i], ord[i - 1]) ELSE "Over"]

cross_from_ord(ord) ==
    [i \in 1..Len(ord) |->
        IF i > 1 THEN from(ord[i], ord[i - 1])
        ELSE IF ord[i] = "Greater" THEN "Over" ELSE "Bellow"]

compute_crossover_s(a, b) ==
    cross_from_ord([i \in 1..Len(a) |-> Cmp(a[i], b[i])])

\* .last().unwrap() of a non-empty series
compute_crossover(a, b) ==
    compute_crossover_s(a, b)[Len(compute_crossover_s(a, b))]

compute_zero_cross_s(curve) ==
    cross_from_ord([i \in 1..Len(curve) |-> Cmp(curve[i], 0)])

compute_zero_cross(curve) ==
    compute_zero_cross_s(curve)[Len(compute_zero_cross_s(curve))]

\* ------------------------------------------- functions on their own
\* the number of counselors Oracle::see runs
RECURSIVE DelphiConsulted(_)
DelphiConsulted(results) ==
    IF results = <<>> THEN 0
    ELSE LET r == Head(results) IN
         IF r.ok /\ r.advice.signal \in {"Buy", "Sell"} THEN 1
         ELSE 1 + DelphiConsulted(Tail(results))

consulted(oracle, results) ==
    IF oracle = "Delphi" THEN DelphiConsulted(results) ELSE 0

\* the inputs the functions are applied to
ResultValues ==
    {Err, Ok(DefaultAdvice)} \cup {Ok(Advice(s, p)) : s \in {"Buy", "Sell"}, p \in Prices}
SeeInputs ==
    UNION {[1..n -> ResultValues] : n \in 0..MaxCounselors}
RunCounselors ==
    {Trace} \cup UNION {{MeanReversion(n), MACDCrossover(n), MACDZeroCross(n), EMACross(n)} :
                          n \in 1..MaxPeriod}
SeriesValues == {0 - 1, 0, 1}
SeriesInputs == UNION {[1..n -> SeriesValues] : n \in 1..MaxSeries}
\* the Sell orders decide emitted for the agent a, and Sell orders a caller
\* can build
SellOrders(a) ==
    {a.orders[k] : k \in {j \in DOMAIN a.orders : a.orders[j].side = "Sell"}} \cup
    {Order(a.next_order_index, p, "Sell", q, s, 0) :
        p \in {None, Some(0), Some(1)}, q \in {R(1), R(600)}, s \in Prices}

\* books with up to MaxLevels lines on each side
\* TimeUnit::num_seconds for the units the sampling uses.
num_seconds(resolution) ==
    CASE resolution.unit = "Sec" -> resolution.n
      [] resolution.unit = "Min" -> 60 * resolution.n
      [] resolution.unit = "Hour" -> 60 * 60 * resolution.n

\* Sample::default(): TimeUnit::default() is Hour(1), the numbers are zero.
SampleDefault ==
    [resolution |-> [unit |-> "Hour", n |-> 1], timestamp |-> 0,
     open |-> Zero, high |-> Zero, low |-> Zero, close |-> Zero, volume |-> 0]

\* The loop of sample_quotes from quote i on: the samples pushed so far, the
\* sample being built and the date its group started at.
RECURSIVE sample_loop(_, _, _, _, _, _)
sample_loop(quotes, i, size, sample_start, sample, samples) ==
    IF i > Len(quotes) THEN [samples |-> samples, sample |-> sample]
    ELSE LET q == quotes[i]
             curr_size_in_seconds == q.biddate - sample_start
         IN  IF curr_size_in_seconds >= size \/ sample.volume = 0
             THEN sample_loop(quotes, i + 1, size, q.biddate,
                      [sample EXCEPT !.timestamp = q.biddate,
                                     !.open = q.bid, !.high = q.bid,
                                     !.low = q.bid, !.close = q.bid,
                                     !.volume = 1],
                      IF sample.volume # 0 THEN Append(samples, sample) ELSE samples)
             ELSE sample_loop(quotes, i + 1, size, sample_start,
                      [sample EXCEPT !.volume = @ + 1,
                                     !.close = q.bid,
                                     !.high = IF RGt(q.bid, @) THEN q.bid ELSE @,
                                     !.low = IF RGt(@, q.bid) THEN q.bid ELSE @],
                      samples)

\* sample_quotes without the push that follows the loop.
sample_quotes_unflushed(quotes, resolution) ==
    IF quotes = <<>> THEN <<>>
    ELSE sample_loop(quotes, 1, num_seconds(resolution), quotes[1].biddate,
                     SampleDefault, <<>>).samples

\* sample_quotes(quotes, resolution): the samples of the quotes.
sample_quotes(quotes, resolution) ==
    IF quotes = <<>> THEN <<>>
    ELSE LET end == sample_loop(quotes, 1, num_seconds(resolution), quotes[1].biddate,
                                SampleDefault, <<>>)
         IN  IF end.sample.volume # 0 THEN Append(end.samples, end.sample)
             ELSE end.samples

\* The quotes handed to sample_quotes: in time order from date 0, each one
\* 0, 60 or 90 seconds after the one before.
QuoteGaps == {0, 60, 90}
RECURSIVE QuoteDates(_)
QuoteDates(n) ==
    IF n = 0 THEN {<<>>}
    ELSE IF n = 1 THEN {<<0>>}
    ELSE {Append(d, d[n - 1] + gap) : d \in QuoteDates(n - 1), gap \in QuoteGaps}
QuoteSeries ==
    UNION {{[i \in 1..n |-> [biddate |-> d[i], bid |-> b[i]]] :
               d \in QuoteDates(n), b \in [1..n -> Prices]} : n \in 0..MaxQuotes}
SampleResolutions == {[unit |-> "Min", n |-> k] : k \in 1..MaxMinutes}

BookSides == UNION {[1..n -> Prices] : n \in 0..MaxLevels}
QuoteBooks == {Book(bids, asks) : bids \in BookSides, asks \in BookSides}

InitFn ==
    /\ c = new
    /\ now = 0
    /\ emitted = <<>>
    /\ filled = {}
    /\ legit = TRUE
    /\ created = <<>>
    /\ nrealize = 0
    /\ start = c
    /\ bt = BtIdle
    /\ cache = <<>>
    /\ \/ \E oracle \in {"Delphi", "Dodona"}, results \in SeeInputs :
             op = [name |-> "see", oracle |-> oracle, results |-> results]
       \/ \E counselor \in RunCounselors, history \in Histories :
             op = [name |-> "run", counselor |-> counselor, history |-> history]
       \/ \E a \in SeriesInputs, b \in SeriesInputs :
             /\ Len(a) = Len(b)
             /\ op = [name |-> "compute_crossover_s", a |-> a, b |-> b]
       \/ \E s \in BacktestStrategies, token \in Tokens : \E a \in Ledgers(s) :
             op = [name |-> "serialize", c |-> [a EXCEPT !.token = token]]
       \/ \E book \in QuoteBooks :
             op = [name |-> "quote", book |-> book]
       \/ \E quotes \in QuoteSeries, resolution \in SampleResolutions :
             op = [name |-> "sample_quotes", quotes |-> quotes, resolution |-> resolution]
       \/ \E s \in LiveStrategies : \E a \in Ledgers(s) : \E order \in SellOrders(a) :
             op = [name |-> "realize", c |-> a, order |-> order]

fnfixed == <<c, now, emitted, filled, legit, created, nrealize, start, bt, cache>>

\* Oracle::see over the results its counselors return
See ==
    /\ op.name = "see"
    /\ op' = [ name |-> "see returned", oracle |-> op.oracle, results |-> op.results,
               decision |-> see(op.oracle, op.results),
               consulted |-> consulted(op.oracle, op.results) ]
    /\ UNCHANGED fnfixed

\* Counselor::run on a history
Run ==
    /\ op.name = "run"
    /\ \E result \in run(op.counselor, op.history) :
          op' = [ name |-> "run returned", counselor |-> op.counselor,
                  history |-> op.history, result |-> result ]
    /\ UNCHANGED fnfixed

\* compute_crossover_s and compute_crossover on a and b, compute_zero_cross_s
\* and compute_zero_cross on a
ComputeCrossover ==
    /\ op.name = "compute_crossover_s"
    /\ op' = [ name |-> "compute_crossover_s returned", a |-> op.a, b |-> op.b,
               series |-> compute_crossover_s(op.a, op.b),
               last |-> compute_crossover(op.a, op.b),
               mirrored |-> compute_crossover_s(op.b, op.a),
               zero_series |-> compute_zero_cross_s(op.a),
               zero_last |-> compute_zero_cross(op.a) ]
    /\ UNCHANGED fnfixed

\* Chrysus::realize applied to the same order twice
RealizeTwice ==
    /\ op.name = "realize"
    /\ op' = [ name |-> "realize returned", c |-> op.c, order |-> op.order,
               once |-> realize(op.c, op.order),
               twice |-> realize(realize(op.c, op.order), op.order) ]
    /\ UNCHANGED fnfixed

\* Book::quote
QuoteBook ==
    /\ op.name = "quote"
    /\ op' = [name |-> "quote returned", book |-> op.book, quote |-> quote(op.book)]
    /\ UNCHANGED fnfixed

\* an agent saved and loaded again
SaveLoad ==
    /\ op.name = "serialize"
    /\ op' = [ name |-> "deserialize returned", c |-> op.c,
               saved |-> serialize(op.c),
               loaded |-> deserialize(serialize(op.c)) ]
    /\ UNCHANGED fnfixed

\* sample_quotes is applied to the quotes.
SampleQuotes ==
    /\ op.name = "sample_quotes"
    /\ op' = [name |-> "sample_quotes returned", quotes |-> op.quotes,
              resolution |-> op.resolution,
              samples |-> sample_quotes(op.quotes, op.resolution)]
    /\ UNCHANGED fnfixed

NextFn == See \/ Run \/ ComputeCrossover \/ RealizeTwice \/ QuoteBook \/ SaveLoad \/ SampleQuotes

SpecFn == InitFn /\ [][NextFn]_vars

\* the effect of realize of the Sell order o that takes the agent x to y
SellApplied(x, o, y) ==
    LET open == IF o.position_index = None THEN DOMAIN x.positions
                ELSE DOMAIN x.positions \ {o.position_index[1]}
    IN  /\ y.positions = [k \in open |-> x.positions[k]]
        /\ y.balance = RSub(x.balance, o.quantity)
        /\ y.capital = RAdd(x.capital, RMul(o.quantity, o.price))
        /\ y.locked_capital = x.locked_capital
        /\ y = [x EXCEPT !.positions = y.positions, !.balance = y.balance,
                         !.capital = y.capital]

\* C15: realize of a Sell order is unconditional: it removes the referenced
\* Position if present, subtracts quantity from balance and adds
\* quantity * price to capital, leaving locked_capital and all other
\* Positions unchanged, whether or not the referenced Position still
\* exists; the same Sell order applied twice adds quantity * price to
\* capital twice and subtracts quantity from balance twice.
C15_SellFillUnconditional ==
    op.name = "realize returned" =>
      LET value == RMul(op.order.quantity, op.order.price) IN
      /\ SellApplied(op.c, op.order, op.once)
      /\ SellApplied(op.once, op.order, op.twice)
      /\ op.twice.capital = RAdd(op.c.capital, RAdd(value, value))
      /\ op.twice.balance = RSub(op.c.balance, RAdd(op.order.quantity, op.order.quantity))

C15_Witness ==
    /\ op.name = "realize returned"
    /\ op.order.index \in DOMAIN op.c.orders
    /\ op.order.position_index # None
    /\ op.order.position_index[1] \in DOMAIN op.c.positions
    /\ op.order.position_index[1] \notin DOMAIN op.once.positions
    /\ RGt(Zero, op.twice.balance)

\* C17: Oracle::Delphi is first-match-wins: the Decision carries the Advice
\* of the first counselor in declared order whose run returned Ok with a
\* signal other than None, later counselors are not consulted, and the
\* allocation fraction is in [0, 1]; counselors that return Err or signal
\* None are skipped; if none signals the result is the default Decision.
C17_DelphiFirstMatch ==
    (op.name = "see returned" /\ op.oracle = "Delphi") =>
      LET rs == op.results
          signals == {k \in 1..Len(rs) : rs[k].ok /\ rs[k].advice.signal # "None"}
      IN  IF signals = {}
          THEN /\ op.decision = DefaultDecision
               /\ op.consulted = Len(rs)
          ELSE LET first == CHOOSE k \in signals : \A j \in signals : k <= j
               IN  /\ op.decision.advice = rs[first].advice
                   /\ op.consulted = first
                   /\ ~RGt(Zero, op.decision.pct)
                   /\ ~RGt(op.decision.pct, R(1))

C17_Witness ==
    /\ op.name = "see returned"
    /\ op.oracle = "Delphi"
    /\ op.results = <<Err, Ok(Advice("Sell", R(2))), Ok(Advice("Buy", R(1)))>>
    /\ op.decision.advice.signal = "Sell"
    /\ op.consulted = 2

\* C18: for every counselor variant that needs history (MeanReversion,
\* MACDCrossover, MACDZeroCross, EMACross), run on a history shorter than
\* its required lookback, the empty history included, returns an error: it
\* neither returns a Buy or Sell signal nor aborts.
C18_ShortHistoryIsError ==
    ( /\ op.name = "run returned"
      /\ op.counselor.kind # "Trace"
      /\ Len(op.history) < required_samples(op.counselor) ) =>
      op.result = Err

\* the table of C20 on (ordering[i-1], ordering[i])
CrossoverTable(prev, curr) ==
    CASE prev = "Greater" /\ curr = "Greater" -> "Over"
      [] prev = "Greater" /\ curr \in {"Equal", "Less"} -> "CrossingDownwards"
      [] prev = "Equal" /\ curr = "Greater" -> "CrossingUpwards"
      [] prev = "Equal" /\ curr = "Equal" -> "Equal"
      [] prev = "Equal" /\ curr = "Less" -> "CrossingDownwards"
      [] prev = "Less" /\ curr = "Less" -> "Bellow"
      [] prev = "Less" /\ curr \in {"Equal", "Greater"} -> "CrossingUpwards"

Classified(ord, series) ==
    /\ Len(series) = Len(ord)
    /\ series[1] = IF ord[1] = "Greater" THEN "Over" ELSE "Bellow"
    /\ \A i \in 2..Len(ord) : series[i] = CrossoverTable(ord[i - 1], ord[i])

\* C20: for two equal-length non-empty series, compute_crossover_s returns
\* a sequence of the same length whose index 0 is Over if the ordering
\* there is Greater and Bellow otherwise, and whose index i > 0 follows the
\* table on (ordering[i-1], ordering[i]); compute_crossover returns its
\* last element, and compute_zero_cross_s is the same classification
\* against the constant 0.
C20_CrossoverClassification ==
    op.name = "compute_crossover_s returned" =>
      /\ Classified([i \in 1..Len(op.a) |-> Cmp(op.a[i], op.b[i])], op.series)
      /\ op.last = op.series[Len(op.series)]
      /\ Classified([i \in 1..Len(op.a) |-> Cmp(op.a[i], 0)], op.zero_series)
      /\ op.zero_last = op.zero_series[Len(op.zero_series)]

C20_Witness ==
    /\ op.name = "compute_crossover_s returned"
    /\ op.a = <<1, 0, 0>>
    /\ op.b = <<0, 0, 1>>
    /\ op.series = <<"Over", "CrossingDownwards", "CrossingDownwards">>
    /\ op.zero_series = <<"Over", "CrossingDownwards", "Equal">>

\* Over and Bellow exchanged, CrossingUpwards and CrossingDownwards
\* exchanged, Equal kept
Mirror(x) ==
    CASE x = "Over" -> "Bellow"
      [] x = "Bellow" -> "Over"
      [] x = "CrossingUpwards" -> "CrossingDownwards"
      [] x = "CrossingDownwards" -> "CrossingUpwards"
      [] x = "Equal" -> "Equal"

\* C21: for any two equal-length non-empty series a and b,
\* compute_crossover_s(b, a) equals compute_crossover_s(a, b) with Over and
\* Bellow exchanged and CrossingUpwards and CrossingDownwards exchanged
\* (Equal kept) at every index, index 0 and indices where the two series
\* are equal included.
C21_MirrorSymmetry ==
    op.name = "compute_crossover_s returned" =>
      /\ Len(op.mirrored) = Len(op.series)
      /\ \A i \in 1..Len(op.series) : op.mirrored[i] = Mirror(op.series[i])

\* C21 as amended: the exchange holds at every index after the first, and
\* at the first index when the series differ there; where they are equal
\* at the first index both comparisons classify it Bellow.
C21_MirrorSymmetryAmended ==
    op.name = "compute_crossover_s returned" =>
      /\ Len(op.mirrored) = Len(op.series)
      /\ \A i \in 2..Len(op.series) : op.mirrored[i] = Mirror(op.series[i])
      /\ op.a[1] # op.b[1] => op.mirrored[1] = Mirror(op.series[1])
      /\ op.a[1] = op.b[1] => (op.series[1] = "Bellow" /\ op.mirrored[1] = "Bellow")

C21_Witness ==
    /\ op.name = "compute_crossover_s returned"
    /\ op.a = <<0, 0, 1>>
    /\ op.b = <<0, 1, 0>>
    /\ op.series = <<"Bellow", "CrossingDownwards", "CrossingUpwards">>
    /\ op.mirrored = <<"Bellow", "CrossingUpwards", "CrossingDownwards">>

\* C22: for every book with at least one bid and one ask, Book::quote
\* returns a Quote whose bid is the highest bid price and whose ask is the
\* lowest ask price in the book; it returns no Quote exactly when the bid
\* side or the ask side is empty.
C22_BestBidAsk ==
    op.name = "quote returned" =>
      /\ op.quote = None <=> (op.book.bids = <<>> \/ op.book.asks = <<>>)
      /\ op.quote # None =>
            /\ op.quote[1].bid # None
            /\ op.quote[1].ask # None
            /\ \E i \in 1..Len(op.book.bids) : op.book.bids[i] = op.quote[1].bid[1]
            /\ \A i \in 1..Len(op.book.bids) : ~RGt(op.book.bids[i], op.quote[1].bid[1])
            /\ \E i \in 1..Len(op.book.asks) : op.book.asks[i] = op.quote[1].ask[1]
            /\ \A i \in 1..Len(op.book.asks) : ~RGt(op.quote[1].ask[1], op.book.asks[i])

\* C23: serializing any agent writes only its token and strategy, and
\* deserializing that record yields an agent with the same token and
\* strategy and a ledger re-initialized from zero (capital 0, locked
\* capital 0, balance 0, no positions, no orders, both index counters 0),
\* whatever the ledger of the saved agent was.
C23_PersistenceRoundTrip ==
    op.name = "deserialize returned" =>
      /\ DOMAIN op.saved = {"token", "strategy"}
      /\ op.saved.token = op.c.token
      /\ op.saved.strategy = op.c.strategy
      /\ op.loaded # Panic
      /\ op.loaded.token = op.c.token
      /\ op.loaded.strategy = op.c.strategy
      /\ op.loaded.capital = Zero
      /\ op.loaded.locked_capital = Zero
      /\ op.loaded.balance = Zero
      /\ op.loaded.positions = <<>>
      /\ op.loaded.orders = <<>>
      /\ op.loaded.next_position_index = 0
      /\ op.loaded.next_order_index = 0

C23_Witness ==
    /\ op.name = "deserialize returned"
    /\ op.c.token = "ETH"
    /\ op.c.strategy.counselors # <<>>
    /\ op.c.strategy.duration_count > 0
    /\ DOMAIN op.c.positions # {}
    /\ DOMAIN op.c.orders # {}
    /\ op.c.capital # Zero
    /\ op.c.next_order_index > 0

\* ------------------------------------------------------------- cache
\* KEY!(token): token.to_string().to_uppercase()
CacheTokens == {"btc", "BTC"}
KEY(token) == IF token = "btc" THEN "BTC" ELSE token

Resolutions == {"Min", "Hour"}
Timestamps == {1, 2}
CacheSamples ==
    {[resolution |-> r, timestamp |-> t, close |-> p] :
        r \in Resolutions, t \in Timestamps, p \in Prices}
Batches(longest) == UNION {[1..n -> CacheSamples] : n \in 0..longest}

\* the loop of Cache::write over the samples of the batch; the series is
\* changed in place, so what was done before a rejection stays
RECURSIVE write_loop(_, _)
write_loop(series, v) ==
    IF v = <<>> THEN [cache |-> series, result |-> "Ok"]
    ELSE LET sample == Head(v)
             last_index == Len(series)
         IN  IF sample.timestamp < series[last_index].timestamp
             THEN [cache |-> series, result |-> "Err"]
             ELSE IF sample.timestamp = series[last_index].timestamp
             THEN write_loop([series EXCEPT ![last_index] = sample], Tail(v))
             ELSE write_loop(Append(series, sample), Tail(v))

\* Cache::write
write(data, token, samples) ==
    IF samples = <<>> THEN [data |-> data, result |-> "Ok"]
    ELSE LET resolution == samples[1].resolution
             key == KEY(token)
         IN  IF key \in DOMAIN data
             THEN IF resolution \in DOMAIN data[key]
                  THEN LET w == write_loop(data[key][resolution], samples)
                       IN  [ data |-> [data EXCEPT ![key][resolution] = w.cache],
                             result |-> w.result ]
                  ELSE [ data |-> [data EXCEPT ![key] = Insert(@, resolution, samples)],
                         result |-> "Ok" ]
             ELSE [ data |-> Insert(data, key, Insert(<<>>, resolution, samples)),
                    result |-> "Ok" ]

\* the number of samples the cache holds
Stored(data) ==
    LET len(key, r) == IF key \in DOMAIN data /\ r \in DOMAIN data[key]
                       THEN Len(data[key][r]) ELSE 0
    IN  len("BTC", "Min") + len("BTC", "Hour")

InitCache ==
    /\ c = new
    /\ now = 0
    /\ emitted = <<>>
    /\ filled = {}
    /\ legit = TRUE
    /\ created = <<>>
    /\ nrealize = 0
    /\ op = [name |-> "new"]
    /\ start = c
    /\ bt = BtIdle
    /\ cache = <<>>

cachefixed == <<c, now, emitted, filled, legit, created, nrealize, start, bt>>

\* Cache::write called with a batch
Write ==
    \E token \in CacheTokens, samples \in Batches(MaxStored - Stored(cache)) :
       LET w == write(cache, token, samples) IN
       /\ cache' = w.data
       /\ op' = [name |-> "write", token |-> token, result |-> w.result]
       /\ UNCHANGED cachefixed

\* BinanceMarket::append: Cache::write with the one sample
Append1 ==
    \E token \in CacheTokens, sample \in CacheSamples :
       LET w == write(cache, token, <<sample>>) IN
       /\ Stored(cache) + 1 <= MaxStored
       /\ cache' = w.data
       /\ op' = [ name |-> "append", token |-> token,
                  resolution |-> sample.resolution, result |-> w.result ]
       /\ UNCHANGED cachefixed

NextCache == Write \/ Append1

SpecCache == InitCache /\ [][NextCache]_vars

\* the store holds a series for the token and the resolution
Known(data, token, resolution) ==
    KEY(token) \in DOMAIN data /\ resolution \in DOMAIN data[KEY(token)]

\* C24: append(token, sample) on the cache-backed historical data source
\* fails when the store holds no series for that token and the sample's
\* resolution, and in that case leaves the store unchanged; it succeeds
\* only for a token/resolution combination the store already knows.
C24_AppendUnknownFails ==
    [][ (op'.name = "append" /\ ~Known(cache, op'.token, op'.resolution)) =>
          /\ op'.result = "Err"
          /\ cache' = cache ]_vars

StrictlyIncreasing(series) ==
    \A i, j \in 1..Len(series) : i < j => series[i].timestamp < series[j].timestamp

\* C25: after any sequence of Cache::write calls with arbitrary batches
\* (first writes and later writes, sorted or not, with or without repeated
\* timestamps), the samples stored for each (token, resolution) have
\* strictly increasing timestamps.
C25_StoredStrictlyIncreasing ==
    \A key \in DOMAIN cache : \A resolution \in DOMAIN cache[key] :
       StrictlyIncreasing(cache[key][resolution])

\* C30: a rejected Cache::write is atomic: when write returns an error
\* because the batch contains a sample older than the last stored one, the
\* stored series is exactly what it was before the call.
C30_RejectedWriteIsAtomic ==
    [][ (op'.name = "write" /\ op'.result = "Err") => cache' = cache ]_vars

\* ---- C26 ----
RECURSIVE VolumeSum(_)
VolumeSum(samples) ==
    IF samples = <<>> THEN 0 ELSE samples[1].volume + VolumeSum(Tail(samples))

\* Sample j summarises the quotes that follow those of the samples before it.
GroupSummarised(quotes, samples, j) ==
    LET first == 1 + VolumeSum(SubSeq(samples, 1, j - 1))
        last == first + samples[j].volume - 1
        bids == {quotes[i].bid : i \in first..last}
    IN  /\ samples[j].volume >= 1
        /\ last <= Len(quotes)
        /\ samples[j].open = quotes[first].bid
        /\ samples[j].close = quotes[last].bid
        /\ samples[j].high \in bids
        /\ \A b \in bids : ~RGt(b, samples[j].high)
        /\ samples[j].low \in bids
        /\ \A b \in bids : ~RGt(samples[j].low, b)

OneMinuteApart(quotes) ==
    \A i \in 2..Len(quotes) : quotes[i].biddate - quotes[i - 1].biddate = 60

\* C26: sample_quotes splits time-ordered quotes into consecutive groups, one
\* sample per group: the volumes add up to the number of quotes, each sample's
\* open and close are the first and last bid of its group and its high and low
\* the largest and smallest bid; n quotes one minute apart sampled at k minutes
\* give ceil(n / k) samples; no quotes give no samples.
C26_SampleQuotesPartition ==
    op.name = "sample_quotes returned" =>
        /\ VolumeSum(op.samples) = Len(op.quotes)
        /\ \A j \in 1..Len(op.samples) : GroupSummarised(op.quotes, op.samples, j)
        /\ OneMinuteApart(op.quotes) =>
              Len(op.samples) = (Len(op.quotes) + op.resolution.n - 1) \div op.resolution.n
        /\ op.quotes = <<>> => op.samples = <<>>

\* Three or more quotes one minute apart were sampled at two minutes, and a
\* group of two quotes with different bids came out.
C26_Witness ==
    /\ op.name = "sample_quotes returned"
    /\ Len(op.quotes) >= 3
    /\ OneMinuteApart(op.quotes)
    /\ op.resolution.n = 2
    /\ Len(op.samples) >= 2
    /\ \E j \in 1..Len(op.samples) :
          op.samples[j].volume = 2 /\ op.samples[j].high # op.samples[j].low

\* ---- C27 ----
RECURSIVE PositionsQuantity(_)
PositionsQuantity(positions) ==
    IF DOMAIN positions = {} THEN Zero
    ELSE LET k == CHOOSE x \in DOMAIN positions : TRUE
         IN  RAdd(positions[k].quantity, PositionsQuantity(Remove(positions, k)))

\* C27: in every state reached by decide and by realize applied at most once
\* to each emitted order, the balance is the sum of the quantities of the
\* open Positions.
C27_BalanceIsOpenQuantity ==
    legit => c.balance = PositionsQuantity(c.positions)

\* ---- C28 ----
EmptyLedger(a) ==
    /\ a.orders = <<>>
    /\ a.positions = <<>>
    /\ a.balance = Zero
    /\ a.locked_capital = Zero

\* C28: while backtest replays a history for an agent handed over with an
\* empty ledger, after every step of the loop no capital is locked and the
\* free capital is not negative.
C28_BacktestLedgerSound ==
    (bt.pc = "loop" /\ EmptyLedger(bt.chrysus[bt.call])) =>
        /\ bt.c.locked_capital = Zero
        /\ ~RGt(Zero, bt.c.capital)

\* A replay from an empty ledger in which a Buy order was emitted and filled.
C28_Witness ==
    /\ bt.pc = "loop"
    /\ EmptyLedger(bt.chrysus[bt.call])
    /\ bt.ndecide >= 1
    /\ \E k \in 1..Len(bt.result.orders) : bt.result.orders[k].side = "Buy"
    /\ bt.c.positions # <<>>
    /\ RGt(R(InitialCapital), bt.c.capital)

\* ---- C29 ----
\* The samples before index i of the history, the last `count` of them at most.
Before(history, i, count) ==
    LET m == IF i < count THEN i ELSE count
    IN  [k \in 1..m |-> history[i - m + k]]

\* C29: the slice decide reads at step i holds the samples of index below i
\* only, the most recent min(i, duration.count) of them in their order, and
\* the book of the step is made of the close of sample i.
C29_NoLookAhead ==
    [][ (bt.pc = "loop" /\ bt'.ndecide = bt.ndecide + 1) =>
          /\ bt'.slice = Before(bt.history, bt.i, bt.c.strategy.duration_count)
          /\ bt'.pc = "loop" =>
                bt'.decided.book = Book(<<bt.history[bt.i + 1].close>>,
                                        <<bt.history[bt.i + 1].close>>) ]_vars

\* A step at index 2 or later whose slice is shorter than the history before
\* it and does not end with the sample being replayed.
C29_Witness ==
    /\ bt.pc = "loop"
    /\ bt.ndecide >= 1
    /\ bt.i >= 3
    /\ bt.slice # <<>>
    /\ Len(bt.slice) < bt.i - 1
    /\ bt.slice[Len(bt.slice)] = bt.history[bt.i - 1]
    /\ bt.slice[Len(bt.slice)] # bt.history[bt.i]

====
